---- MODULE Spec2Model ----
(***************************************************************************)
(* tide-rustls: the TlsListenerBuilder, the TlsListener configuration and  *)
(* connection state machines, the accept loop of Listener::listen and the  *)
(* per-connection tasks spawned by handle_tls.                             *)
(*                                                                         *)
(* An Option<T> is a sequence of length 0 (None) or 1 (Some(x)).           *)
(* An io::Result<T> is a record with a field ok.                           *)
(***************************************************************************)
EXTENDS Integers, Sequences, FiniteSets, TLC

\* ---------------------------------------------------------------- bounds
MaxConns == 2
MaxListens == 2
MaxAcceptErrors == 2

\* ------------------------------------------------------- Option / Result
None == <<>>
Some(x) == <<x>>
IsSome(o) == Len(o) = 1
IsNone(o) == Len(o) = 0
Ok(v) == [ok |-> TRUE, v |-> v]
Err(kind, msg) == [ok |-> FALSE, kind |-> kind, msg |-> msg]

\* ------------------------------------------------------------ the inputs
\* what the builder's callers pass in
KeyPaths == {"key.pem"}
CertPaths == {"cert.pem"}
ServerConfigs == {"prebuilt"}
CustomAcceptors == {"custom"}
PreBound == {[id |-> 0, local |-> "p0"]}
\* arguments of addrs(): a name that does not resolve, an empty slice of
\* socket addresses, a host with one address, a host with two
AddrsArgs == {"unresolvable", "empty", "hostA", "hostB"}
SocketAddrs == {"a1", "b1", "b2"}
\* what the cert file and the key file can hold when they are opened
CertFiles == {"missing", "garbled", "nocerts", "chain"}
KeyFiles == {"missing", "garbled", "nokeys", "pkcs8", "rsa", "badkey"}
\* io::ErrorKind values incoming.next() can yield
AcceptErrorKinds == {"ConnectionRefused", "ConnectionAborted", "ConnectionReset", "Other"}

VARIABLES
    builder,     \* TlsListenerBuilder: key, cert, config, tls_acceptor, tcp, addrs
    phase,       \* "building" | "built" (finish returned Ok) | "failed" (finish returned Err)
    finished,    \* Option of the io::Result finish returned
    connection,  \* TlsListener.connection : TcpConnection
    config,      \* TlsListener.config : TlsListenerConfig
    pc,          \* position of the listen future: idle, connect, accepting, sleeping, returned
    acceptor,    \* listen's local `acceptor` (Option)
    stream,      \* listen's local `stream`: the latest item of incoming.next() (Option)
    result,      \* Option of the io::Result the latest listen call returned
    handlers,    \* the tasks spawned by handle_tls, in spawn order
    conns,       \* number of connections accepted so far (all listen calls)
    accepted,    \* number of connections accepted by the current listen call
    errs,        \* number of accept errors delivered so far
    listens,     \* number of listen calls started
    pauses,      \* task::sleep calls since the latest incoming.next() item
    delay,       \* Option of the Duration (ms) of the task::sleep after the latest item
    fileOpens,   \* File::open calls made
    built,       \* ServerConfig::new calls made
    made,        \* TlsAcceptor::from calls made
    binds,       \* TcpListener::bind calls made
    task,        \* one task of handle_tls looked at request by request (Option)
    req,         \* the request that task has inside app.respond (Option)
    requests,    \* the requests async_h1::accept gave to the closure of that task
    arcs,        \* the Arc<Mutex<TlsStream>> allocations, one per TlsStreamWrapper::new
    wrappers,    \* the TlsStreamWrapper each poller holds (Option of an index of arcs)
    calls,       \* each poller's poll_read / poll_write / poll_flush / poll_close call
    ncalls,      \* poll calls made so far
    disk,        \* what the cert file and the key file of one listener hold
    lst,         \* that listener, resolved from its paths
    trace        \* the calls made on the builder, in order

vars == <<builder, phase, finished, connection, config, pc, acceptor, stream, result,
          handlers, conns, accepted, errs, listens, pauses, delay,
          fileOpens, built, made, binds, task, req, requests,
          arcs, wrappers, calls, ncalls, disk, lst, trace>>

builderVars == <<builder, phase, finished>>
listenerVars == <<connection, config>>
loopVars == <<pc, acceptor, stream, result, accepted, listens, pauses, delay>>
taskVars == <<handlers, conns>>
ioVars == <<fileOpens, built, made, binds>>
\* the builder, the listener, its accept loop and its tasks
mainVars == <<builderVars, listenerVars, loopVars, taskVars, ioVars, errs>>
requestVars == <<task, req, requests>>
\* what the builder, the listener and the accept loop leave alone
wrapperVars == <<arcs, wrappers, calls, ncalls>>
resolveVars == <<disk, lst>>
sideVars == <<requestVars, wrapperVars, resolveVars, trace>>

\* the threads of the executor that may poll a stream
Pollers == {"p1", "p2"}

\* the pollers are handed their wrappers in this order
before(p, q) == <<p, q>> = <<"p1", "p2">>

\* a poller outside every poll function
Idle == [pc |-> "idle", result |-> None]

\* ------------------------------------------------------------ the builder
\* TlsListenerBuilder::default
Default ==
    [key |-> None, cert |-> None, config |-> None, tls_acceptor |-> None,
     tcp |-> None, addrs |-> None]

\* ToSocketAddrs::to_socket_addrs of the argument of addrs()
to_socket_addrs(arg) ==
    CASE arg = "unresolvable" -> Err("Other", "failed to lookup address information")
      [] arg = "empty" -> Ok(<<>>)
      [] arg = "hostA" -> Ok(<<"a1">>)
      [] arg = "hostB" -> Ok(<<"b1", "b2">>)

key(b, path) == [b EXCEPT !.key = Some(path)]
cert(b, path) == [b EXCEPT !.cert = Some(path)]
config_(b, c) == [b EXCEPT !.config = Some(c)]
tls_acceptor(b, a) == [b EXCEPT !.tls_acceptor = Some(a)]
tcp(b, t) == [b EXCEPT !.tcp = Some(t)]
\* addrs that adds the resolved addresses to the ones it holds
addrs_extends(b, arg) ==
    LET r == to_socket_addrs(arg)
    IN IF r.ok
       THEN [b EXCEPT !.addrs = IF IsSome(@) THEN Some(@[1] \o r.v) ELSE Some(r.v)]
       ELSE b

\* addrs that takes a failed resolution for an empty list of addresses
addrs_keeps_failure(b, arg) ==
    LET r == to_socket_addrs(arg)
    IN IF r.ok THEN [b EXCEPT !.addrs = Some(r.v)] ELSE [b EXCEPT !.addrs = Some(<<>>)]

\* TlsListenerBuilder::addrs: `if let Ok(socket_addrs)`, no else
addrs(b, arg) ==
    LET r == to_socket_addrs(arg)
    IN IF r.ok THEN [b EXCEPT !.addrs = Some(r.v)] ELSE b

\* the variants of TlsListenerConfig
Unconfigured == [kind |-> "Unconfigured"]
Acceptor(a) == [kind |-> "Acceptor", acceptor |-> a]
ServerConfig(c) == [kind |-> "ServerConfig", config |-> c]
Paths(c, k) == [kind |-> "Paths", cert |-> c, key |-> k]

\* the variants of TcpConnection
Addrs(as) == [kind |-> "Addrs", addrs |-> as]
Connected(t) == [kind |-> "Connected", tcp |-> t]

\* the acceptance capability a custom strategy provides, and the one
\* TlsAcceptor::from makes out of a ServerConfig
CustomAcceptor(a) == [std |-> FALSE, id |-> 0, of |-> a]
StandardAcceptor(n, c) == [std |-> TRUE, id |-> n, of |-> c]

\* finish_config with the tls_acceptor column missing from its first two arms
finish_config_missing_arm(b) ==
    IF IsSome(b.key) /\ IsSome(b.cert) /\ IsNone(b.config)
    THEN Ok(Paths(b.cert[1], b.key[1]))
    ELSE IF IsNone(b.key) /\ IsNone(b.cert) /\ IsSome(b.config)
    THEN Ok(ServerConfig(b.config[1]))
    ELSE IF IsNone(b.key) /\ IsNone(b.cert) /\ IsNone(b.config) /\ IsSome(b.tls_acceptor)
    THEN Ok(Acceptor(CustomAcceptor(b.tls_acceptor[1])))
    ELSE Err("InvalidInput", "need exactly one of cert + key, ServerConfig, or TLS acceptor")

\* finish that falls back to the default configuration
finish_config_defaults(b) ==
    IF IsSome(b.key) /\ IsSome(b.cert) /\ IsNone(b.config) /\ IsNone(b.tls_acceptor)
    THEN Ok(Paths(b.cert[1], b.key[1]))
    ELSE IF IsNone(b.key) /\ IsNone(b.cert) /\ IsSome(b.config) /\ IsNone(b.tls_acceptor)
    THEN Ok(ServerConfig(b.config[1]))
    ELSE IF IsNone(b.key) /\ IsNone(b.cert) /\ IsNone(b.config) /\ IsSome(b.tls_acceptor)
    THEN Ok(Acceptor(CustomAcceptor(b.tls_acceptor[1])))
    ELSE Ok(Unconfigured)

\* the first match of finish: (key, cert, config, tls_acceptor)
finish_config(b) ==
    IF IsSome(b.key) /\ IsSome(b.cert) /\ IsNone(b.config) /\ IsNone(b.tls_acceptor)
    THEN Ok(Paths(b.cert[1], b.key[1]))
    ELSE IF IsNone(b.key) /\ IsNone(b.cert) /\ IsSome(b.config) /\ IsNone(b.tls_acceptor)
    THEN Ok(ServerConfig(b.config[1]))
    ELSE IF IsNone(b.key) /\ IsNone(b.cert) /\ IsNone(b.config) /\ IsSome(b.tls_acceptor)
    THEN Ok(Acceptor(CustomAcceptor(b.tls_acceptor[1])))
    ELSE Err("InvalidInput", "need exactly one of cert + key, ServerConfig, or TLS acceptor")

\* finish_connection that prefers the socket when both are given
finish_connection_tcp_wins(b) ==
    IF IsSome(b.tcp)
    THEN Ok(Connected(b.tcp[1]))
    ELSE IF IsSome(b.addrs)
    THEN Ok(Addrs(b.addrs[1]))
    ELSE Err("InvalidInput", "either tcp or addrs are required")

\* the second match of finish: (tcp, addrs)
finish_connection(b) ==
    IF IsSome(b.tcp) /\ IsNone(b.addrs)
    THEN Ok(Connected(b.tcp[1]))
    ELSE IF IsNone(b.tcp) /\ IsSome(b.addrs)
    THEN Ok(Addrs(b.addrs[1]))
    ELSE Err("InvalidInput", "either tcp or addrs are required")

\* TlsListenerBuilder::finish
finish(b) ==
    LET c == finish_config(b)
        n == finish_connection(b)
    IN IF ~c.ok THEN c
       ELSE IF ~n.ok THEN n
       ELSE Ok([connection |-> n.v, config |-> c.v])

\* TlsListenerBuilder::build of tls_listener/tls_listener_builder.rs, the
\* builder without the tls_acceptor option
build(b) ==
    LET c == IF IsSome(b.key) /\ IsSome(b.cert) /\ IsNone(b.config)
             THEN Ok(Paths(b.cert[1], b.key[1]))
             ELSE IF IsNone(b.key) /\ IsNone(b.cert) /\ IsSome(b.config)
             THEN Ok(ServerConfig(b.config[1]))
             ELSE Err("InvalidInput", "either cert + key are required or a ServerConfig")
        n == finish_connection(b)
    IN IF ~c.ok THEN c
       ELSE IF ~n.ok THEN n
       ELSE Ok([connection |-> n.v, config |-> c.v])

\* ------------------------------------------------- resolving the acceptor
\* rustls::internal::pemfile::certs on the cert file's content
certs(f) ==
    CASE f = "garbled" -> [ok |-> FALSE]
      [] f = "nocerts" -> Ok(<<>>)
      [] f = "chain" -> Ok(<<"cert">>)

\* rustls::internal::pemfile::pkcs8_private_keys on the key file's content
pkcs8_private_keys(f) ==
    CASE f = "garbled" -> [ok |-> FALSE]
      [] f = "pkcs8" -> Ok(<<"pkcs8 key">>)
      [] f = "badkey" -> Ok(<<"not a key">>)
      [] OTHER -> Ok(<<>>)

\* rustls::internal::pemfile::rsa_private_keys on the key file's content
rsa_private_keys(f) ==
    CASE f = "garbled" -> [ok |-> FALSE]
      [] f = "rsa" -> Ok(<<"rsa key">>)
      [] OTHER -> Ok(<<>>)

\* File::open
File_open(f) == IF f = "missing" THEN Err("NotFound", "No such file or directory") ELSE Ok(f)

load_certs(f) ==
    IF ~File_open(f).ok THEN File_open(f)
    ELSE IF certs(f).ok THEN certs(f)
    ELSE Err("InvalidInput", "invalid cert")

load_keys(f) ==
    IF ~File_open(f).ok THEN File_open(f)
    ELSE IF pkcs8_private_keys(f).ok /\ pkcs8_private_keys(f).v # <<>>
    THEN pkcs8_private_keys(f)
    ELSE IF rsa_private_keys(f).ok /\ rsa_private_keys(f).v # <<>>
    THEN rsa_private_keys(f)
    ELSE Err("InvalidInput", "invalid key")

\* ServerConfig::set_single_cert: fails on a key rustls cannot use
set_single_cert(cs, k) ==
    IF k = "not a key" THEN Err("InvalidInput", "invalid private key") ELSE Ok("from paths")

\* the Paths arm of configure, when the cert file holds cf, the key file holds
\* kf and n acceptors have been made so far. std::mem::take has left
\* Unconfigured behind when `?` returns early.
\* config: the configuration afterwards; res: what configure returns;
\* opens, news, froms: the File::open, ServerConfig::new and
\* TlsAcceptor::from calls made.
configure_paths(cf, kf, n) ==
    IF ~load_certs(cf).ok
    THEN [config |-> Unconfigured, res |-> load_certs(cf),
          opens |-> 1, news |-> 0, froms |-> 0]
    ELSE IF ~load_keys(kf).ok
    THEN [config |-> Unconfigured, res |-> load_keys(kf),
          opens |-> 2, news |-> 0, froms |-> 0]
    ELSE IF ~set_single_cert(load_certs(cf).v, load_keys(kf).v[1]).ok
    THEN [config |-> Unconfigured,
          res |-> set_single_cert(load_certs(cf).v, load_keys(kf).v[1]),
          opens |-> 2, news |-> 1, froms |-> 0]
    ELSE [config |-> Acceptor(StandardAcceptor(n + 1, "from paths")),
          res |-> Ok(StandardAcceptor(n + 1, "from paths")),
          opens |-> 2, news |-> 1, froms |-> 1]

\* configure that puts the paths back when resolving them fails
configure_puts_back(cfg, cf, kf, n) ==
    IF cfg.kind = "Paths"
    THEN [configure_paths(cf, kf, n) EXCEPT !.config = IF @.kind = "Unconfigured" THEN cfg ELSE @]
    ELSE IF cfg.kind = "ServerConfig"
    THEN [config |-> Acceptor(StandardAcceptor(n + 1, cfg.config)),
          res |-> Ok(StandardAcceptor(n + 1, cfg.config)),
          opens |-> 0, news |-> 0, froms |-> 1]
    ELSE IF cfg.kind = "Acceptor"
    THEN [config |-> cfg, res |-> Ok(cfg.acceptor),
          opens |-> 0, news |-> 0, froms |-> 0]
    ELSE [config |-> cfg, res |-> Err("Other", "could not configure tlslistener"),
          opens |-> 0, news |-> 0, froms |-> 0]

\* configure that reads the cert and key files whatever the configuration is
configure_reads_files(cfg, cf, kf, n) ==
    IF cfg.kind = "Paths"
    THEN configure_paths(cf, kf, n)
    ELSE IF cfg.kind = "ServerConfig"
    THEN [config |-> Acceptor(StandardAcceptor(n + 1, cfg.config)),
          res |-> Ok(StandardAcceptor(n + 1, cfg.config)),
          opens |-> 2, news |-> 0, froms |-> 1]
    ELSE IF cfg.kind = "Acceptor"
    THEN [config |-> cfg, res |-> Ok(cfg.acceptor),
          opens |-> 2, news |-> 0, froms |-> 0]
    ELSE [config |-> cfg, res |-> Err("Other", "could not configure tlslistener"),
          opens |-> 0, news |-> 0, froms |-> 0]

\* configure that returns the acceptor it resolved without storing it
configure_not_memoized(cfg, cf, kf, n) ==
    IF cfg.kind = "Paths"
    THEN [configure_paths(cf, kf, n) EXCEPT !.config = IF @.kind = "Acceptor" THEN cfg ELSE @]
    ELSE IF cfg.kind = "ServerConfig"
    THEN [config |-> cfg,
          res |-> Ok(StandardAcceptor(n + 1, cfg.config)),
          opens |-> 0, news |-> 0, froms |-> 1]
    ELSE IF cfg.kind = "Acceptor"
    THEN [config |-> cfg, res |-> Ok(cfg.acceptor),
          opens |-> 0, news |-> 0, froms |-> 0]
    ELSE [config |-> cfg, res |-> Err("Other", "could not configure tlslistener"),
          opens |-> 0, news |-> 0, froms |-> 0]

\* TlsListener::configure on the configuration cfg
configure(cfg, cf, kf, n) ==
    IF cfg.kind = "Paths"
    THEN configure_paths(cf, kf, n)
    ELSE IF cfg.kind = "ServerConfig"
    THEN [config |-> Acceptor(StandardAcceptor(n + 1, cfg.config)),
          res |-> Ok(StandardAcceptor(n + 1, cfg.config)),
          opens |-> 0, news |-> 0, froms |-> 1]
    ELSE IF cfg.kind = "Acceptor"
    THEN [config |-> cfg, res |-> Ok(cfg.acceptor),
          opens |-> 0, news |-> 0, froms |-> 0]
    ELSE [config |-> cfg, res |-> Err("Other", "could not configure tlslistener"),
          opens |-> 0, news |-> 0, froms |-> 0]

\* --------------------------------------------------- resolving the socket
\* TcpListener::bind(&addrs[..]) when the addresses in free can be bound and
\* n sockets have been bound so far: the first address that binds wins
RECURSIVE first_bindable(_, _)
first_bindable(as, free) ==
    IF as = <<>> THEN None
    ELSE IF Head(as) \in free THEN Some(Head(as))
    ELSE first_bindable(Tail(as), free)

TcpListener_bind(as, free, n) ==
    IF as = <<>> THEN Err("InvalidInput", "could not resolve to any addresses")
    ELSE IF IsSome(first_bindable(as, free))
    THEN Ok([id |-> n + 1, local |-> first_bindable(as, free)[1]])
    ELSE Err("AddrInUse", "Address already in use")

\* listen that goes on to connect whatever configure returned
after_configure_unchecked(r) ==
    [pc |-> "connect",
     acceptor |-> IF r.ok THEN Some(r.v) ELSE None,
     result |-> IF r.ok THEN None ELSE Some(r)]

\* let acceptor = self.configure().await?: where listen is after configure
\* returned r
after_configure(r) ==
    IF r.ok
    THEN [pc |-> "connect", acceptor |-> Some(r.v), result |-> None]
    ELSE [pc |-> "returned", acceptor |-> None, result |-> Some(r)]

\* connect that has taken the addresses out before it binds
connect_forgets_addrs(conn, free, n) ==
    IF conn.kind = "Addrs"
    THEN IF TcpListener_bind(conn.addrs, free, n).ok
         THEN [connection |-> Connected(TcpListener_bind(conn.addrs, free, n).v),
               res |-> TcpListener_bind(conn.addrs, free, n), binds |-> 1]
         ELSE [connection |-> Addrs(<<>>),
               res |-> TcpListener_bind(conn.addrs, free, n), binds |-> 1]
    ELSE [connection |-> conn, res |-> Ok(conn.tcp), binds |-> 0]

\* connect that binds and returns the socket without storing it
connect_not_stored(conn, free, n) ==
    IF conn.kind = "Addrs"
    THEN [connection |-> conn, res |-> TcpListener_bind(conn.addrs, free, n), binds |-> 1]
    ELSE [connection |-> conn, res |-> Ok(conn.tcp), binds |-> 0]

\* TlsListener::connect: the connection afterwards, what it returns, binds made
connect(conn, free, n) ==
    IF conn.kind = "Addrs"
    THEN IF TcpListener_bind(conn.addrs, free, n).ok
         THEN [connection |-> Connected(TcpListener_bind(conn.addrs, free, n).v),
               res |-> TcpListener_bind(conn.addrs, free, n), binds |-> 1]
         ELSE [connection |-> conn,
               res |-> TcpListener_bind(conn.addrs, free, n), binds |-> 1]
    ELSE [connection |-> conn, res |-> Ok(conn.tcp), binds |-> 0]

\* listen without the `?` on connect: goes on to accept whatever connect returned
after_connect_unchecked(r) ==
    [pc |-> "accepting", result |-> None]

\* let listener = self.connect().await?: where listen is after connect returned r
after_connect(r) ==
    IF r.ok
    THEN [pc |-> "accepting", result |-> None]
    ELSE [pc |-> "returned", result |-> Some(r)]

\* --------------------------------------------------------- the accept loop
\* is_transient_error without the ConnectionReset arm
is_transient_error_forgets_reset(e) ==
    e.kind \in {"ConnectionRefused", "ConnectionAborted"}

is_transient_error(e) ==
    e.kind \in {"ConnectionRefused", "ConnectionAborted", "ConnectionReset"}

\* an accept loop that gives up on an error that is not transient
on_accept_error_escalates(e) ==
    IF is_transient_error(e)
    THEN [pc |-> "accepting", pauses |-> 0, delay |-> None, result |-> None]
    ELSE [pc |-> "returned", pauses |-> 0, delay |-> None, result |-> Some(e)]

\* the two Err arms of the match in listen: where the loop is after
\* incoming.next() yielded Err(e), the task::sleep calls made and their Duration
on_accept_error(e) ==
    IF is_transient_error(e)
    THEN [pc |-> "accepting", pauses |-> 0, delay |-> None, result |-> None]
    ELSE [pc |-> "sleeping", pauses |-> 1, delay |-> Some(500), result |-> None]

\* a standard acceptor that may keep the stream to itself
accept_results_standard_none(a) ==
    {Ok(Some("tls stream")), Ok(None), Err("InvalidData", "handshake failed")}

\* what acceptor.accept(stream).await can return: StandardTlsAcceptor maps the
\* stream of a successful handshake to Some, a custom strategy may return
\* Ok(None)
accept_results(a) ==
    IF a.std
    THEN {Ok(Some("tls stream")), Err("InvalidData", "handshake failed")}
    ELSE {Ok(Some("tls stream")), Ok(None), Err("InvalidData", "handshake failed")}

h1_results == {Ok("closed"), Err("Other", "http error")}

\* the task handle_tls spawns, at its first await
spawned(a, s) ==
    [st |-> "handshake", acceptor |-> a, tcp |-> s, tls |-> None,
     wrapper |-> None, h1 |-> None, log |-> None]

\* handle_tls that spawns a second task for the same connection
handle_tls_spawns_twice(hs, s, a) ==
    [handlers |-> Append(Append(hs, spawned(a, s)), spawned(a, s)), pc |-> "accepting"]

\* handle_tls that awaits the task it spawned
handle_tls_awaits_task(hs, s, a) ==
    [handlers |-> Append(hs, spawned(a, s)), pc |-> "joining"]

\* handle_tls: spawns the task and returns; the caller's position afterwards
handle_tls(hs, s, a) ==
    [handlers |-> Append(hs, spawned(a, s)), pc |-> "accepting"]

\* a task that retries the handshake after an error
after_accept_retries(h, r) ==
    IF r.ok
    THEN [h EXCEPT !.st = "http", !.tls = Some(r), !.wrapper = Some(r.v)]
    ELSE [h EXCEPT !.tls = Some(r), !.log = Some("tls error")]

\* the task after acceptor.accept(stream).await returned r
after_accept(h, r) ==
    IF r.ok
    THEN \* Ok(tls_stream) => TlsStreamWrapper::new(tls_stream); async_h1::accept(stream, ..)
         [h EXCEPT !.st = "http", !.tls = Some(r), !.wrapper = Some(r.v)]
    ELSE [h EXCEPT !.st = "done", !.tls = Some(r), !.log = Some("tls error")]

\* the task after async_h1::accept(..).await returned r
after_h1(h, r) ==
    [h EXCEPT !.st = "done", !.h1 = Some(r),
              !.log = IF r.ok THEN None ELSE Some("async-h1 error")]

NoListener == [kind |-> "NoListener"]

InitMain ==
    /\ builder = Default
    /\ phase = "building"
    /\ finished = None
    /\ connection = NoListener
    /\ config = NoListener
    /\ pc = "idle"
    /\ acceptor = None
    /\ stream = None
    /\ result = None
    /\ handlers = <<>>
    /\ conns = 0
    /\ accepted = 0
    /\ errs = 0
    /\ listens = 0
    /\ pauses = 0
    /\ delay = None
    /\ fileOpens = 0
    /\ built = 0
    /\ made = 0
    /\ binds = 0

\* no task looked at yet
InitRequests ==
    /\ task = None
    /\ req = None
    /\ requests = <<>>

\* no TlsStreamWrapper made yet
InitWrappers ==
    /\ arcs = <<>>
    /\ wrappers = [p \in Pollers |-> None]
    /\ calls = [p \in Pollers |-> Idle]
    /\ ncalls = 0

\* no listener resolved from paths yet
InitResolve ==
    /\ disk = [cert |-> "missing", key |-> "missing"]
    /\ lst = NoListener

Init ==
    /\ InitMain
    /\ InitRequests
    /\ InitWrappers
    /\ InitResolve
    /\ trace = <<>>

notBuilder == <<connection, config, pc, acceptor, stream, result, handlers, conns,
                accepted, errs, listens, pauses, delay, fileOpens, built, made, binds>>

Key ==
    /\ phase = "building"
    /\ \E p \in KeyPaths : builder' = key(builder, p)
    /\ UNCHANGED <<phase, finished, notBuilder>>
    /\ UNCHANGED sideVars

Cert ==
    /\ phase = "building"
    /\ \E p \in CertPaths : builder' = cert(builder, p)
    /\ UNCHANGED <<phase, finished, notBuilder>>
    /\ UNCHANGED sideVars

Config ==
    /\ phase = "building"
    /\ \E c \in ServerConfigs : builder' = config_(builder, c)
    /\ UNCHANGED <<phase, finished, notBuilder>>
    /\ UNCHANGED sideVars

TlsAcceptor ==
    /\ phase = "building"
    /\ \E a \in CustomAcceptors : builder' = tls_acceptor(builder, a)
    /\ UNCHANGED <<phase, finished, notBuilder>>
    /\ UNCHANGED sideVars

Tcp ==
    /\ phase = "building"
    /\ \E t \in PreBound : builder' = tcp(builder, t)
    /\ UNCHANGED <<phase, finished, notBuilder>>
    /\ UNCHANGED sideVars

AddrsCall ==
    /\ phase = "building"
    /\ \E arg \in AddrsArgs : builder' = addrs(builder, arg)
    /\ UNCHANGED <<phase, finished, notBuilder>>
    /\ UNCHANGED sideVars

\* finish consumes the builder; the model keeps the consumed value in builder
Finish ==
    /\ phase = "building"
    /\ LET r == finish(builder)
       IN /\ finished' = Some(r)
          /\ phase' = IF r.ok THEN "built" ELSE "failed"
          /\ connection' = IF r.ok THEN r.v.connection ELSE connection
          /\ config' = IF r.ok THEN r.v.config ELSE config
    /\ UNCHANGED <<builder, loopVars, taskVars, errs, ioVars>>
    /\ UNCHANGED sideVars

\* the file contents and the free addresses a step can depend on: only a Paths
\* configuration has files to open, only an Addrs connection has addresses to bind
CertFilesRead(cfg) == IF cfg.kind = "Paths" THEN CertFiles ELSE {"missing"}
KeyFilesRead(cfg) == IF cfg.kind = "Paths" THEN KeyFiles ELSE {"missing"}
FreeAddrs(conn) == IF conn.kind = "Addrs" THEN SUBSET SocketAddrs ELSE {{}}

\* listen is called: self.configure().await?
ListenConfigure ==
    /\ phase = "built"
    /\ pc \in {"idle", "returned"}
    /\ listens < MaxListens
    /\ \E cf \in CertFilesRead(config), kf \in KeyFilesRead(config) :
        LET r == configure(config, cf, kf, made)
        IN /\ config' = r.config
           /\ fileOpens' = fileOpens + r.opens
           /\ built' = built + r.news
           /\ made' = made + r.froms
           /\ acceptor' = after_configure(r.res).acceptor
           /\ result' = after_configure(r.res).result
           /\ pc' = after_configure(r.res).pc
    /\ listens' = listens + 1
    /\ accepted' = 0
    /\ stream' = None
    /\ pauses' = 0
    /\ delay' = None
    /\ UNCHANGED <<builderVars, connection, taskVars, errs, binds>>
    /\ UNCHANGED sideVars

\* self.connect().await?; listener.incoming()
ListenConnect ==
    /\ pc = "connect"
    /\ \E free \in FreeAddrs(connection) :
        LET r == connect(connection, free, binds)
        IN /\ connection' = r.connection
           /\ binds' = binds + r.binds
           /\ result' = after_connect(r.res).result
           /\ pc' = after_connect(r.res).pc
    /\ UNCHANGED <<builderVars, config, acceptor, stream, accepted, listens, pauses,
                   delay, taskVars, errs, fileOpens, built, made>>
    /\ UNCHANGED sideVars

\* incoming.next().await yields Some(Ok(stream)): handle_tls(app.clone(), stream, acceptor.clone())
AcceptOk ==
    /\ pc = "accepting"
    /\ conns < MaxConns
    /\ LET r == handle_tls(handlers, conns + 1, acceptor[1])
       IN /\ handlers' = r.handlers
          /\ pc' = r.pc
    /\ stream' = Some(Ok(conns + 1))
    /\ conns' = conns + 1
    /\ accepted' = accepted + 1
    /\ pauses' = 0
    /\ delay' = None
    /\ UNCHANGED <<builderVars, listenerVars, acceptor, result, listens, errs, ioVars>>
    /\ UNCHANGED sideVars

\* incoming.next().await yields Some(Err(e))
AcceptErr ==
    /\ pc = "accepting"
    /\ errs < MaxAcceptErrors
    /\ \E k \in AcceptErrorKinds :
        LET e == Err(k, "accept failed")
        IN /\ stream' = Some(e)
           /\ pc' = on_accept_error(e).pc
           /\ pauses' = on_accept_error(e).pauses
           /\ delay' = on_accept_error(e).delay
           /\ result' = on_accept_error(e).result
    /\ errs' = errs + 1
    /\ UNCHANGED <<builderVars, listenerVars, acceptor, accepted, listens,
                   taskVars, ioVars>>
    /\ UNCHANGED sideVars

\* task::sleep(delay).await completes; continue
SleepDone ==
    /\ pc = "sleeping"
    /\ pc' = "accepting"
    /\ UNCHANGED <<builderVars, listenerVars, acceptor, stream, result, accepted, listens,
                   pauses, delay, taskVars, errs, ioVars>>
    /\ UNCHANGED sideVars

\* incoming.next().await yields None: the loop ends, Ok(())
AcceptEnd ==
    /\ pc = "accepting"
    /\ stream' = None
    /\ result' = Some(Ok("unit"))
    /\ pc' = "returned"
    /\ pauses' = 0
    /\ delay' = None
    /\ UNCHANGED <<builderVars, listenerVars, acceptor, accepted, listens,
                   taskVars, errs, ioVars>>
    /\ UNCHANGED sideVars

\* task i: acceptor.accept(stream).await returns
HandshakeDone(i) ==
    /\ handlers[i].st = "handshake"
    /\ \E r \in accept_results(handlers[i].acceptor) :
        handlers' = [handlers EXCEPT ![i] = after_accept(@, r)]
    /\ UNCHANGED <<builderVars, listenerVars, loopVars, conns, errs, ioVars>>
    /\ UNCHANGED sideVars

\* task i: async_h1::accept(stream, ..).await returns
HttpDone(i) ==
    /\ handlers[i].st = "http"
    /\ \E r \in h1_results :
        handlers' = [handlers EXCEPT ![i] = after_h1(@, r)]
    /\ UNCHANGED <<builderVars, listenerVars, loopVars, conns, errs, ioVars>>
    /\ UNCHANGED sideVars

Next ==
    \/ Key
    \/ Cert
    \/ Config
    \/ TlsAcceptor
    \/ Tcp
    \/ AddrsCall
    \/ Finish
    \/ ListenConfigure
    \/ ListenConnect
    \/ AcceptOk
    \/ AcceptErr
    \/ SleepDone
    \/ AcceptEnd
    \/ \E i \in 1..MaxConns : i <= Len(handlers) /\ HandshakeDone(i)
    \/ \E i \in 1..MaxConns : i <= Len(handlers) /\ HttpDone(i)

Spec == Init /\ [][Next]_vars

\* ================================================================ claims
Running == pc \in {"connect", "accepting", "sleeping"}
Tasks == 1..Len(handlers)

\* the TLS option groups of the builder's documentation, read off the fields
TlsGroups(b) ==
    {g \in {"cert + key", "config", "tls_acceptor"} :
        \/ g = "cert + key" /\ IsSome(b.cert) /\ IsSome(b.key)
        \/ g = "config" /\ IsSome(b.config)
        \/ g = "tls_acceptor" /\ IsSome(b.tls_acceptor)}
OneTlsGroup(b) ==
    /\ Cardinality(TlsGroups(b)) = 1
    /\ IsSome(b.key) <=> IsSome(b.cert)
OneSocketSource(b) == IsSome(b.tcp) # IsSome(b.addrs)

\* C1: finish returns a listener only when exactly one of {cert and key,
\* ServerConfig, tls_acceptor} is present; with none, a key without a cert, a
\* cert without a key or two or more groups it returns an InvalidInput error
\* and there is no listener.
C1_ExactlyOneTlsGroup ==
    phase # "building" =>
        /\ finished[1].ok => OneTlsGroup(builder)
        /\ ~OneTlsGroup(builder) =>
              /\ ~finished[1].ok
              /\ finished[1].kind = "InvalidInput"
              /\ phase = "failed"
              /\ connection = NoListener /\ config = NoListener
        /\ (IsNone(builder.tls_acceptor) /\ build(builder).ok) => OneTlsGroup(builder)
        /\ (IsNone(builder.tls_acceptor) /\ ~OneTlsGroup(builder)) =>
              ~build(builder).ok /\ build(builder).kind = "InvalidInput"

C1_Witness ==
    /\ phase = "failed"
    /\ TlsGroups(builder) = {"cert + key", "config"}
    /\ OneSocketSource(builder)
    /\ finished[1].kind = "InvalidInput"

\* C2: finish returns a listener only when exactly one of {tcp, addrs} is
\* present; with both or neither it returns an InvalidInput error and there is
\* no listener, whatever the TLS options are.
C2_ExactlyOneSocketSource ==
    phase # "building" =>
        /\ finished[1].ok => OneSocketSource(builder)
        /\ ~OneSocketSource(builder) =>
              /\ ~finished[1].ok
              /\ finished[1].kind = "InvalidInput"
              /\ phase = "failed"
              /\ connection = NoListener /\ config = NoListener
        /\ build(builder).ok => OneSocketSource(builder)

C2_Witness ==
    /\ phase = "failed"
    /\ OneTlsGroup(builder)
    /\ IsSome(builder.tcp) /\ IsSome(builder.addrs)
    /\ finished[1].msg = "either tcp or addrs are required"

\* C3: once configure has returned an acceptor the configuration is
\* Acceptor(that acceptor) in every later state, and every later configure
\* returns that acceptor, opens no file and builds no ServerConfig or acceptor.
C3_Step ==
    config.kind = "Acceptor" =>
        /\ config' = config
        /\ fileOpens' = fileOpens /\ built' = built /\ made' = made
        /\ IsSome(acceptor') => acceptor'[1] = config.acceptor
C3_Memoized ==
    /\ [](IsSome(acceptor) => config = Acceptor(acceptor[1]))
    /\ [][C3_Step]_vars

C3_Witness ==
    /\ listens = 2
    /\ pc = "connect"
    /\ fileOpens = 2 /\ built = 1 /\ made = 1
    /\ config = Acceptor(StandardAcceptor(1, "from paths"))
    /\ acceptor = Some(StandardAcceptor(1, "from paths"))

\* C4: a Connected connection stays Connected to the same socket and no bind
\* follows it; connect on it returns that socket, binds nothing and leaves it
\* as it is; whenever connect has succeeded the connection is Connected; a
\* listener built from a pre-bound socket has made no bind.
C4_Step ==
    connection.kind = "Connected" => (connection' = connection /\ binds' = binds)
C4_BoundOnce ==
    /\ [][C4_Step]_vars
    /\ [](pc \in {"accepting", "sleeping"} => connection.kind = "Connected")
    /\ [](connection.kind = "Connected" =>
            \A free \in SUBSET SocketAddrs :
                connect(connection, free, binds) =
                    [connection |-> connection, res |-> Ok(connection.tcp), binds |-> 0])
    /\ []((phase = "built" /\ IsSome(builder.tcp)) =>
            binds = 0 /\ connection = Connected(builder.tcp[1]))

C4_Witness ==
    /\ listens = 2
    /\ pc = "accepting"
    /\ binds = 1
    /\ connection.kind = "Connected" /\ connection.tcp.id = 1

\* C5: before the next accept attempt, an accept error of kind
\* ConnectionRefused, ConnectionAborted or ConnectionReset has been followed by
\* no pause, and an accept error of any other kind by exactly one pause, of 500 ms.
TransientKinds == {"ConnectionRefused", "ConnectionAborted", "ConnectionReset"}
C5_BackoffOnlyOnPersistent ==
    /\ (pc = "accepting" /\ IsSome(stream) /\ ~stream[1].ok) =>
          IF stream[1].kind \in TransientKinds
          THEN pauses = 0 /\ delay = None
          ELSE pauses = 1 /\ delay = Some(500)
    /\ pc = "sleeping" =>
          /\ IsSome(stream) /\ ~stream[1].ok
          /\ stream[1].kind \notin TransientKinds
          /\ pauses = 1 /\ delay = Some(500)

C5_Witness ==
    /\ pc = "accepting"
    /\ IsSome(stream) /\ ~stream[1].ok /\ stream[1].kind = "Other"
    /\ pauses = 1 /\ delay = Some(500)

\* C6: listen returns an error only out of configure or connect; from the
\* accepting state it returns only when incoming ends, and then Ok; no accept
\* error and no step of a task makes it return.
ResolutionErrors ==
    {"No such file or directory", "invalid cert", "invalid key", "invalid private key",
     "could not configure tlslistener",
     "could not resolve to any addresses", "Address already in use"}
C6_Step ==
    pc \in {"accepting", "sleeping"} =>
        \/ pc' \in {"accepting", "sleeping"} /\ result' = None
        \/ pc = "accepting" /\ pc' = "returned"
           /\ IsNone(stream') /\ result' = Some(Ok("unit"))
C6_OnlyResolutionErrorsReturn ==
    /\ []((IsSome(result) /\ ~result[1].ok) =>
            /\ result[1].msg \in ResolutionErrors
            /\ pc = "returned"
            /\ accepted = 0 /\ IsNone(stream))
    /\ [][C6_Step]_vars

C6_Witness ==
    /\ pc = "accepting"
    /\ result = None
    /\ IsSome(stream) /\ ~stream[1].ok /\ stream[1].kind = "Other"
    /\ \E i \in Tasks : handlers[i].log = Some("tls error")
    /\ \E i \in Tasks : handlers[i].log = Some("async-h1 error")

\* C7: a connection is accepted or dispatched only while the configuration is
\* a resolved Acceptor and the connection is Connected; a listen call that
\* ended with an error has accepted no connection.
C7_ResolvedBeforeAccept ==
    /\ (accepted > 0 \/ pc \in {"accepting", "sleeping"}) =>
          /\ config.kind = "Acceptor"
          /\ acceptor = Some(config.acceptor)
          /\ connection.kind = "Connected"
    /\ (IsSome(result) /\ ~result[1].ok) => accepted = 0
    /\ Len(handlers) = conns
    /\ conns > 0 => config.kind = "Acceptor" /\ connection.kind = "Connected"
    /\ \A i \in Tasks : handlers[i].acceptor = config.acceptor

C7_Witness ==
    /\ accepted = 1
    /\ pc = "accepting"
    /\ finished[1].v.config.kind = "Paths"
    /\ finished[1].v.connection.kind = "Addrs"

\* C8: a step that accepts a connection spawns its task at the handshake and
\* leaves the loop at the next accept, whatever the tasks spawned before are
\* doing; the loop is never at a position where it waits for a task.
C8_Step ==
    conns' # conns =>
        /\ conns' = conns + 1
        /\ pc' = "accepting"
        /\ Len(handlers') = conns'
        /\ handlers'[conns'].st = "handshake"
        /\ \A i \in Tasks : handlers'[i] = handlers[i]
C8_DispatchDoesNotBlock ==
    /\ [](pc \in {"idle", "connect", "accepting", "sleeping", "returned"})
    /\ [][C8_Step]_vars

C8_Witness ==
    /\ Len(handlers) = 2
    /\ handlers[1].st = "handshake"
    /\ handlers[2].st = "done" /\ handlers[2].h1 = Some(Ok("closed"))
    /\ pc = "accepting"

\* C9: a step of one task changes no other task and not the loop; a handshake
\* error or an HTTP error ends that task, and an ended task does nothing more.
C9_Step ==
    \A i \in Tasks :
          /\ handlers'[i] # handlers[i] =>
                /\ \A j \in Tasks \ {i} : handlers'[j] = handlers[j]
                /\ Len(handlers') = Len(handlers)
                /\ pc' = pc /\ result' = result /\ acceptor' = acceptor
                /\ config' = config /\ connection' = connection
                /\ (IsSome(handlers'[i].tls) /\ ~handlers'[i].tls[1].ok) =>
                      /\ handlers'[i].st = "done"
                      /\ IsNone(handlers'[i].wrapper) /\ IsNone(handlers'[i].h1)
                /\ (IsSome(handlers'[i].h1) /\ ~handlers'[i].h1[1].ok) =>
                      handlers'[i].st = "done"
          /\ handlers[i].st = "done" => handlers'[i] = handlers[i]
C9_ErrorsStayInTheirTask == [][C9_Step]_vars

C9_Witness ==
    /\ Len(handlers) = 2
    /\ handlers[1].st = "done" /\ handlers[1].log = Some("tls error")
    /\ handlers[2].st = "done" /\ handlers[2].h1 = Some(Ok("closed"))
    /\ pc = "accepting"

\* C10: a task whose acceptor returned Ok(None) ends without a stream adapter,
\* without anything handed to async_h1::accept and without an error logged.
C10_NoStreamEndsTheTask ==
    \A i \in Tasks :
        (IsSome(handlers[i].tls) /\ handlers[i].tls[1] = Ok(None)) =>
            /\ handlers[i].st = "done"
            /\ IsNone(handlers[i].wrapper)
            /\ IsNone(handlers[i].h1)
            /\ IsNone(handlers[i].log)

\* ---------------------------------------------------------------------------
\* One task of handle_tls, request by request
\* ---------------------------------------------------------------------------

MaxRequests == 2

\* stream.local_addr().ok() and stream.peer_addr().ok() of the raw connection
LocalAddrs == {None, Some("127.0.0.1:4433")}
PeerAddrs == {None, Some("10.0.0.7:5000")}

\* schemes of the urls async_h1 hands to the closure
UrlSchemes == {"http", "mailto"}
SpecialSchemes == {"http", "https", "ws", "wss", "ftp", "file"}

\* Url::set_scheme: a url cannot change between a special and another scheme
set_scheme(url, scheme) ==
    IF (url.scheme \in SpecialSchemes) = (scheme \in SpecialSchemes)
    THEN Ok([url EXCEPT !.scheme = scheme])
    ELSE Err("Other", "scheme")

\* a request as async_h1 decodes it
decoded(sch) ==
    [url |-> [scheme |-> sch], local_addr |-> None, peer_addr |-> None]

\* the task at its first await: the addresses are read before acceptor.accept
spawned_task(a, s, la, pa) ==
    [h |-> spawned(a, s), local_addr |-> la, peer_addr |-> pa]

\* a closure that gives the request up when the scheme cannot be set
on_request_gives_up(r, la, pa) ==
    LET sch == set_scheme(r.url, "https")
        withAddrs == [r EXCEPT !.local_addr = la, !.peer_addr = pa]
    IN  IF sch.ok
        THEN [arrived |-> r, req |-> [withAddrs EXCEPT !.url = sch.v],
              log |-> None, passed |-> TRUE]
        ELSE [arrived |-> r, req |-> r,
              log |-> Some("unable to set https scheme on url"), passed |-> FALSE]

\* the closure given to async_h1::accept, up to its call of app.respond(req)
on_request(r, la, pa) ==
    LET sch == set_scheme(r.url, "https")
        withAddrs == [r EXCEPT !.local_addr = la, !.peer_addr = pa]
    IN  [arrived |-> r,
         req |-> IF sch.ok THEN [withAddrs EXCEPT !.url = sch.v] ELSE withAddrs,
         log |-> IF sch.ok THEN None ELSE Some("unable to set https scheme on url"),
         passed |-> TRUE]

respond_results == {Ok("response"), Err("Other", "endpoint error")}

TaskSpawn ==
    /\ task = None
    /\ \E a \in {CustomAcceptor("custom"), StandardAcceptor(1, "prebuilt")},
          la \in LocalAddrs, pa \in PeerAddrs :
          task' = Some(spawned_task(a, 1, la, pa))
    /\ UNCHANGED <<req, requests>>
    /\ UNCHANGED <<mainVars, wrapperVars, resolveVars, trace>>

TaskHandshake ==
    /\ IsSome(task)
    /\ task[1].h.st = "handshake"
    /\ \E r \in accept_results(task[1].h.acceptor) :
          task' = Some([task[1] EXCEPT !.h = after_accept(@, r)])
    /\ UNCHANGED <<req, requests>>
    /\ UNCHANGED <<mainVars, wrapperVars, resolveVars, trace>>

\* async_h1::accept decoded a request and called the closure with it
RequestArrives ==
    /\ IsSome(task)
    /\ task[1].h.st = "http"
    /\ task[1].h.wrapper = Some(Some("tls stream"))
    /\ req = None
    /\ Len(requests) < MaxRequests
    /\ \E sch \in UrlSchemes :
          LET q == on_request(decoded(sch), task[1].local_addr, task[1].peer_addr)
          IN  /\ requests' = Append(requests, q)
              /\ req' = IF q.passed THEN Some(q.req) ELSE None
    /\ UNCHANGED task
    /\ UNCHANGED <<mainVars, wrapperVars, resolveVars, trace>>

\* app.respond(req).await returned; an error ends async_h1::accept
RespondDone ==
    /\ IsSome(req)
    /\ \E r \in respond_results :
          task' = IF r.ok THEN task
                  ELSE Some([task[1] EXCEPT !.h = after_h1(@, Err("Other", "http error"))])
    /\ req' = None
    /\ UNCHANGED requests
    /\ UNCHANGED <<mainVars, wrapperVars, resolveVars, trace>>

\* the peer closed the connection, or the stream failed, between two requests
TaskHttpDone ==
    /\ IsSome(task)
    /\ task[1].h.st = "http"
    /\ req = None
    /\ \E r \in h1_results :
          task' = Some([task[1] EXCEPT !.h = after_h1(@, r)])
    /\ UNCHANGED <<req, requests>>
    /\ UNCHANGED <<mainVars, wrapperVars, resolveVars, trace>>

HandlerNext ==
    \/ TaskSpawn
    \/ TaskHandshake
    \/ RequestArrives
    \/ RespondDone
    \/ TaskHttpDone

HandlerSpec == Init /\ [][HandlerNext]_vars

\* C11: every request of a negotiated connection is passed to the application,
\* carrying the local and peer address the task read from the raw connection
\* (absent when unavailable) and the https scheme whenever the url takes it;
\* a url that refuses the scheme is logged and the request is passed on as well
C11_RequestsCarryConnection ==
    \A i \in 1..Len(requests) :
        LET q == requests[i]
        IN  /\ q.passed
            /\ q.req.local_addr = task[1].local_addr
            /\ q.req.peer_addr = task[1].peer_addr
            /\ \/ q.req.url.scheme = "https"
               \/ /\ ~set_scheme(q.arrived.url, "https").ok
                  /\ q.log = Some("unable to set https scheme on url")
                  /\ q.req.url = q.arrived.url
            /\ i = Len(requests) /\ IsSome(req) => req[1] = q.req

C11_Witness ==
    /\ Len(requests) = 2
    /\ requests[1].arrived.url.scheme = "mailto"
    /\ requests[1].passed
    /\ requests[2].req.url.scheme = "https"
    /\ task[1].local_addr = None
    /\ IsSome(task[1].peer_addr)
    /\ IsSome(req)


\* ---------------------------------------------------------------------------
\* TlsStreamWrapper: the stream shared by the clones async_h1 reads and writes
\* ---------------------------------------------------------------------------

MaxSessions == 2
MaxCalls == 3
BufLen == 2

PollOps == {"poll_read", "poll_write", "poll_flush", "poll_close"}

\* a TLS session right after the handshake
TlsStream == [out |-> <<>>, got |-> <<>>, rpos |-> 0, flushed |-> 0, closed |-> FALSE]

\* std::sync::Mutex
Mutex_new(v) == [held |-> None, poisoned |-> FALSE, data |-> v]

\* a lock that excludes nobody
lockable_always(m) == TRUE

\* Mutex::lock waits while another thread holds the guard
lockable(m) == m.held = None

\* Mutex::lock once it returns: Err(PoisonError) for a poisoned mutex
lock(m, p) ==
    IF m.poisoned THEN Err("Poisoned", "poisoned lock: another task failed inside")
    ELSE Ok([m EXCEPT !.held = Some(p)])

\* the guard dropped on return
unlock(m) == [m EXCEPT !.held = None]

\* the guard dropped while its thread unwinds
unlock_panicking(m) == [m EXCEPT !.held = None, !.poisoned = TRUE]

\* TlsStreamWrapper::new
new(stream_) == Mutex_new(stream_)

\* what the inner poll does to the session, one byte (or the one flush, close)
inner_step(st, c) ==
    CASE c.op = "poll_read"  -> [st EXCEPT !.rpos = @ + 1,
                                           !.got = Append(@, [call |-> c.id, pos |-> st.rpos + 1])]
      [] c.op = "poll_write" -> [st EXCEPT !.out = Append(@, [call |-> c.id, byte |-> c.done + 1])]
      [] c.op = "poll_flush" -> [st EXCEPT !.flushed = Len(st.out)]
      [] c.op = "poll_close" -> [st EXCEPT !.closed = TRUE]

\* how much of the session one call may touch
inner_limit(c) == IF c.op \in {"poll_read", "poll_write"} THEN c.n ELSE 1

\* what the inner poll returns
inner_results(c) ==
    IF c.done > 0 THEN {[poll |-> "Ready", res |-> Ok(c.done)]}
    ELSE {[poll |-> "Pending"], [poll |-> "Ready", res |-> Err("Other", "tls")]}

\* a poll function entered: about to call self.0.lock()
entered(op, n, id) ==
    [pc |-> "locking", op |-> op, n |-> n, id |-> id, done |-> 0,
     guard |-> None, result |-> None]

\* a poll function that unwraps the lock result
on_lock_unwraps(c, s, r) ==
    IF r.ok
    THEN [c EXCEPT !.pc = "polling", !.guard = Some(s)]
    ELSE [pc |-> "panicked", result |-> None]

\* match self.0.lock(): the Err(e) arm returns, the Ok(this) arm polls the session
on_lock(c, s, r) ==
    IF r.ok
    THEN [c EXCEPT !.pc = "polling", !.guard = Some(s)]
    ELSE [pc |-> "idle",
          result |-> Some([poll |-> "Ready", res |-> Err("Other", r.msg)])]

\* a poll function that keeps the guard when the session is not ready
release_unless_pending(m, r) == IF r.poll = "Pending" THEN m ELSE unlock(m)

\* the guard `this` goes out of scope when the match arm is left, whatever
\* the inner poll returned
release(m, r) == unlock(m)

\* the poll function returning what the inner poll returned
returned(c, r) == [pc |-> "idle", result |-> Some(r)]

WrapperNew(p) ==
    /\ wrappers[p] = None
    /\ \A q \in Pollers : before(q, p) => IsSome(wrappers[q])
    /\ Len(arcs) < MaxSessions
    /\ arcs' = Append(arcs, new(TlsStream))
    /\ wrappers' = [wrappers EXCEPT ![p] = Some(Len(arcs) + 1)]
    /\ UNCHANGED <<calls, ncalls>>
    /\ UNCHANGED <<mainVars, requestVars, resolveVars, trace>>

\* #[derive(Clone)]: the Arc is cloned, the session is shared
WrapperClone(p, q) ==
    /\ wrappers[p] = None
    /\ \A o \in Pollers : before(o, p) => IsSome(wrappers[o])
    /\ IsSome(wrappers[q])
    /\ wrappers' = [wrappers EXCEPT ![p] = wrappers[q]]
    /\ UNCHANGED <<arcs, calls, ncalls>>
    /\ UNCHANGED <<mainVars, requestVars, resolveVars, trace>>

PollCall(p) ==
    /\ IsSome(wrappers[p])
    /\ calls[p].pc = "idle"
    /\ ncalls < MaxCalls
    /\ \E op \in PollOps :
          calls' = [calls EXCEPT ![p] = entered(op, BufLen, ncalls + 1)]
    /\ ncalls' = ncalls + 1
    /\ UNCHANGED <<arcs, wrappers>>
    /\ UNCHANGED <<mainVars, requestVars, resolveVars, trace>>

PollLock(p) ==
    /\ calls[p].pc = "locking"
    /\ LET s == wrappers[p][1]
           r == lock(arcs[s], p)
       IN  /\ lockable(arcs[s])
           /\ calls' = [calls EXCEPT ![p] = on_lock(@, s, r)]
           /\ arcs' = IF r.ok THEN [arcs EXCEPT ![s] = r.v] ELSE arcs
    /\ UNCHANGED <<wrappers, ncalls>>
    /\ UNCHANGED <<mainVars, requestVars, resolveVars, trace>>

PollInner(p) ==
    /\ calls[p].pc = "polling"
    /\ calls[p].done < inner_limit(calls[p])
    /\ LET s == calls[p].guard[1]
       IN  arcs' = [arcs EXCEPT ![s].data = inner_step(@, calls[p])]
    /\ calls' = [calls EXCEPT ![p].done = @ + 1]
    /\ UNCHANGED <<wrappers, ncalls>>
    /\ UNCHANGED <<mainVars, requestVars, resolveVars, trace>>

PollReturn(p) ==
    /\ calls[p].pc = "polling"
    /\ \E r \in inner_results(calls[p]) :
          LET s == calls[p].guard[1]
          IN  /\ calls' = [calls EXCEPT ![p] = returned(@, r)]
              /\ arcs' = [arcs EXCEPT ![s] = release(@, r)]
    /\ UNCHANGED <<wrappers, ncalls>>
    /\ UNCHANGED <<mainVars, requestVars, resolveVars, trace>>

\* the inner poll panics: the thread unwinds through the guard
PollPanic(p) ==
    /\ calls[p].pc = "polling"
    /\ calls' = [calls EXCEPT ![p] = [pc |-> "panicked", result |-> None]]
    /\ LET s == calls[p].guard[1]
       IN  arcs' = [arcs EXCEPT ![s] = unlock_panicking(@)]
    /\ UNCHANGED <<wrappers, ncalls>>
    /\ UNCHANGED <<mainVars, requestVars, resolveVars, trace>>

WrapperNext ==
    \/ \E p \in Pollers : WrapperNew(p)
    \/ \E p, q \in Pollers : WrapperClone(p, q)
    \/ \E p \in Pollers : PollCall(p)
    \/ \E p \in Pollers : PollLock(p)
    \/ \E p \in Pollers : PollInner(p)
    \/ \E p \in Pollers : PollReturn(p)
    \/ \E p \in Pollers : PollPanic(p)

WrapperSpec == Init /\ [][WrapperNext]_vars


Sessions == 1..Len(arcs)
PollingOn(s) == {p \in Pollers : calls[p].pc = "polling" /\ calls[p].guard = Some(s)}

\* C12: among an adapter and its clones at most one poll is inside the session;
\* a poll inside a session holds the lock of that very session, does no more
\* than its one operation, and no poller outside a poll function (returned
\* 'ready' or 'pending') holds any lock
C12_OneOperationAtATime ==
    /\ \A s \in Sessions : Cardinality(PollingOn(s)) <= 1
    /\ \A p \in Pollers :
          calls[p].pc = "polling" =>
              /\ calls[p].guard = wrappers[p]
              /\ arcs[calls[p].guard[1]].held = Some(p)
              /\ calls[p].done <= inner_limit(calls[p])
    /\ \A s \in Sessions :
          IsSome(arcs[s].held) => arcs[s].held[1] \in PollingOn(s)

C12_Witness ==
    /\ wrappers["p1"] = wrappers["p2"]
    /\ calls["p1"].pc = "idle"
    /\ calls["p1"].result = Some([poll |-> "Pending"])
    /\ calls["p2"].pc = "polling"
    /\ calls["p2"].id = 2
    /\ calls["p2"].done = 1
    /\ arcs[1].held = Some("p2")

\* the calls whose bytes are in the sequence log, in order of first appearance
Contiguous(log) ==
    \A i, j, k \in 1..Len(log) :
        i < j /\ j < k /\ log[i].call = log[k].call => log[j].call = log[i].call

\* C13: in every session the bytes written by one call are contiguous in the
\* outgoing stream and the bytes one call read are consecutive bytes of the
\* incoming stream; clones read on from the position the other left, so no
\* byte is delivered twice
C13_NoInterleavedBytes ==
    \A s \in Sessions :
        LET st == arcs[s].data
        IN  /\ Contiguous(st.out)
            /\ Contiguous(st.got)
            /\ Len(st.got) = st.rpos
            /\ \A i \in 1..Len(st.got) : st.got[i].pos = i

C13_Witness ==
    /\ wrappers["p1"] = Some(1)
    /\ wrappers["p2"] = Some(1)
    /\ Len(arcs[1].data.out) = 2
    /\ Len(arcs[1].data.got) = 2
    /\ calls["p1"].pc = "polling"
    /\ calls["p1"].op = "poll_write"
    /\ calls["p2"].pc = "locking"
    /\ calls["p2"].op = "poll_read"

\* a poll function on a poisoned lock: it returns an error, the session and
\* the lock stay as they were
C14_Step ==
    \A p \in Pollers :
        /\ calls[p].pc = "locking"
        /\ arcs[wrappers[p][1]].poisoned
        /\ calls'[p] # calls[p]
        => /\ calls'[p].pc = "idle"
           /\ calls'[p].result[1].poll = "Ready"
           /\ ~calls'[p].result[1].res.ok
           /\ calls'[p].result[1].res.kind = "Other"
           /\ arcs' = arcs

\* C14: on a poisoned lock every poll of the adapter or a clone returns an
\* I/O error at once: the lock is free to take, so the call does not wait, the
\* session is not touched and the poller does not panic
C14_PoisonedLockIsAnError ==
    /\ [](\A p \in Pollers :
            calls[p].pc = "locking" /\ arcs[wrappers[p][1]].poisoned
            => lockable(arcs[wrappers[p][1]]))
    /\ [][C14_Step]_vars

C14_Witness ==
    /\ wrappers["p1"] = wrappers["p2"]
    /\ calls["p1"].pc = "panicked"
    /\ arcs[1].poisoned
    /\ calls["p2"].pc = "idle"
    /\ IsSome(calls["p2"].result)
    /\ calls["p2"].result[1].poll = "Ready"
    /\ ~calls["p2"].result[1].res.ok
    /\ calls["p2"].result[1].res.kind = "Other"
    /\ ncalls = 3


\* ---------------------------------------------------------------------------
\* Resolving a listener configured with paths, file by file
\* ---------------------------------------------------------------------------

\* the two TlsListener modules of the source tree
ListenerVersions == {"tls_listener.rs", "tls_listener/mod.rs"}

\* load_keys of tls_listener/mod.rs: PKCS#8 only
mod_load_keys(f) ==
    IF ~File_open(f).ok THEN File_open(f)
    ELSE IF pkcs8_private_keys(f).ok THEN pkcs8_private_keys(f)
    ELSE Err("InvalidInput", "invalid key")

\* a listener made by finish (or build) from cert and key paths
from_paths(v) ==
    [version |-> v, pc |-> "start", config |-> Paths("cert.pem", "key.pem"),
     res |-> None, chain |-> None, bound |-> None]

\* the Paths arm of configure in listener l, with the files holding cf and kf;
\* Vec::remove(0) panics on an empty vector
resolve_paths(l, cf, kf) ==
    LET cs == load_certs(cf)
        ks == IF l.version = "tls_listener.rs" THEN load_keys(kf) ELSE mod_load_keys(kf)
    IN  IF ~cs.ok
        THEN [l EXCEPT !.pc = "returned", !.config = Unconfigured, !.res = Some(cs)]
        ELSE IF ~ks.ok
        THEN [l EXCEPT !.pc = "returned", !.config = Unconfigured, !.res = Some(ks)]
        ELSE IF ks.v = <<>>
        THEN [l EXCEPT !.pc = "panicked", !.config = Unconfigured]
        ELSE IF ~set_single_cert(cs.v, ks.v[1]).ok
        THEN [l EXCEPT !.pc = "returned", !.config = Unconfigured,
                       !.res = Some(set_single_cert(cs.v, ks.v[1]))]
        ELSE [l EXCEPT !.pc = "connect",
                       !.config = Acceptor(StandardAcceptor(1, "from paths")),
                       !.res = Some(Ok(StandardAcceptor(1, "from paths"))),
                       !.chain = Some(cs.v)]

bind_results == {Ok([id |-> 1, local |-> "a1"]), Err("AddrInUse", "Address already in use")}

ResolveInit ==
    /\ InitMain
    /\ InitRequests
    /\ InitWrappers
    /\ trace = <<>>
    /\ disk \in [cert : CertFiles, key : KeyFiles]
    /\ lst \in {from_paths(v) : v \in ListenerVersions}

\* listen: self.configure().await?
ResolveConfigure ==
    /\ lst.pc = "start"
    /\ lst' = resolve_paths(lst, disk.cert, disk.key)
    /\ UNCHANGED disk
    /\ UNCHANGED <<mainVars, requestVars, wrapperVars, trace>>

\* listen: self.connect().await?, then the accept loop
ResolveConnect ==
    /\ lst.pc = "connect"
    /\ \E r \in bind_results :
          lst' = [lst EXCEPT !.pc = after_connect(r).pc, !.bound = Some(r)]
    /\ UNCHANGED disk
    /\ UNCHANGED <<mainVars, requestVars, wrapperVars, trace>>

ResolveNext ==
    \/ ResolveConfigure
    \/ ResolveConnect

ResolveSpec == ResolveInit /\ [][ResolveNext]_vars

Resolved == lst.pc # "start"
CertsLoad == disk.cert \in {"nocerts", "chain"}

\* C15: resolving from paths never panics on an empty key list; it fails with
\* an I/O error when the cert or the key file cannot be opened, succeeds for a
\* PKCS#8 key and for an RSA-only key, and fails with InvalidInput when the key
\* file holds no key of either kind
C15_KeyLoading ==
    Resolved =>
        /\ lst.pc # "panicked"
        /\ disk.cert = "missing" \/ (CertsLoad /\ disk.key = "missing")
           => ~lst.res[1].ok /\ lst.res[1].kind = "NotFound"
        /\ disk.cert = "chain" /\ disk.key \in {"pkcs8", "rsa"}
           => lst.res[1].ok
        /\ disk.cert = "chain" /\ disk.key \in {"garbled", "nokeys"}
           => ~lst.res[1].ok /\ lst.res[1].kind = "InvalidInput"

\* C16: a cert file that opens and holds no certificate makes resolution fail
\* with InvalidInput, and no listener accepts with an empty certificate chain
C16_NoEmptyChain ==
    /\ Resolved /\ disk.cert = "nocerts"
       => IsSome(lst.res) /\ ~lst.res[1].ok /\ lst.res[1].kind = "InvalidInput"
    /\ lst.pc = "accepting" => lst.chain # Some(<<>>)


\* ---------------------------------------------------------------------------
\* The builder with the calls made on it kept
\* ---------------------------------------------------------------------------

MaxBuilderCalls == 3

called(op, arg) == [op |-> op, arg |-> arg]

\* every builder method takes self and returns Self; the rest is untouched
builderFrame == <<finished, phase, listenerVars, loopVars, taskVars, ioVars, errs,
                  requestVars, wrapperVars, resolveVars>>

TracedKey ==
    /\ phase = "building"
    /\ Len(trace) < MaxBuilderCalls
    /\ \E path \in KeyPaths :
          /\ builder' = key(builder, path)
          /\ trace' = Append(trace, called("key", path))
    /\ UNCHANGED builderFrame

TracedCert ==
    /\ phase = "building"
    /\ Len(trace) < MaxBuilderCalls
    /\ \E path \in CertPaths :
          /\ builder' = cert(builder, path)
          /\ trace' = Append(trace, called("cert", path))
    /\ UNCHANGED builderFrame

TracedConfig ==
    /\ phase = "building"
    /\ Len(trace) < MaxBuilderCalls
    /\ \E c \in ServerConfigs :
          /\ builder' = config_(builder, c)
          /\ trace' = Append(trace, called("config", c))
    /\ UNCHANGED builderFrame

TracedTlsAcceptor ==
    /\ phase = "building"
    /\ Len(trace) < MaxBuilderCalls
    /\ \E a \in CustomAcceptors :
          /\ builder' = tls_acceptor(builder, a)
          /\ trace' = Append(trace, called("tls_acceptor", a))
    /\ UNCHANGED builderFrame

TracedTcp ==
    /\ phase = "building"
    /\ Len(trace) < MaxBuilderCalls
    /\ \E t \in PreBound :
          /\ builder' = tcp(builder, t)
          /\ trace' = Append(trace, called("tcp", t.local))
    /\ UNCHANGED builderFrame

TracedAddrs ==
    /\ phase = "building"
    /\ Len(trace) < MaxBuilderCalls
    /\ \E arg \in AddrsArgs :
          /\ builder' = addrs(builder, arg)
          /\ trace' = Append(trace, called("addrs", arg))
    /\ UNCHANGED builderFrame

TracedFinish ==
    /\ phase = "building"
    /\ LET r == finish(builder)
       IN /\ finished' = Some(r)
          /\ phase' = IF r.ok THEN "built" ELSE "failed"
          /\ connection' = IF r.ok THEN r.v.connection ELSE connection
          /\ config' = IF r.ok THEN r.v.config ELSE config
    /\ UNCHANGED <<builder, trace, loopVars, taskVars, errs, ioVars,
                   requestVars, wrapperVars, resolveVars>>

BuilderNext ==
    \/ TracedKey
    \/ TracedCert
    \/ TracedConfig
    \/ TracedTlsAcceptor
    \/ TracedTcp
    \/ TracedAddrs
    \/ TracedFinish

BuilderSpec == Init /\ [][BuilderNext]_vars

\* the calls that gave the builder a socket source
ConnectionCalls == {i \in 1..Len(trace) : trace[i].op \in {"tcp", "addrs"}}
FailedAddrs(i) == trace[i].op = "addrs" /\ ~to_socket_addrs(trace[i].arg).ok

\* C17: a failed resolution in addrs() leaves the builder without addresses
\* and is reported nowhere: when every tcp / addrs call made was an addrs call
\* that failed to resolve, finish fails with InvalidInput, with 'either tcp or
\* addrs are required' once the TLS options are in order, and never with the
\* resolver's error
C17_FailedAddrsIsNoAddrs ==
    /\ ConnectionCalls # {}
    /\ \A i \in ConnectionCalls : FailedAddrs(i)
    => /\ builder.addrs = None
       /\ IsSome(finished) =>
            /\ ~finished[1].ok
            /\ finished[1].kind = "InvalidInput"
            /\ finish_config(builder).ok
               => finished[1].msg = "either tcp or addrs are required"

C17_Witness ==
    /\ Len(trace) = 3
    /\ trace[1].op = "config"
    /\ FailedAddrs(2)
    /\ FailedAddrs(3)
    /\ IsSome(finished)
    /\ finished[1] = Err("InvalidInput", "either tcp or addrs are required")


\* C18: every listener finish returns with an Addrs connection holds at least
\* one socket address
C18_UnboundHasAddress ==
    phase = "built" /\ connection.kind = "Addrs" => Len(connection.addrs) >= 1


\* a step of the accept loop: a delivered connection adds exactly one task,
\* for that connection, behind the tasks there are; a delivered error adds none
C19_Step ==
    /\ conns' # conns =>
          /\ stream'[1].ok
          /\ Len(handlers') = Len(handlers) + 1
          /\ handlers'[Len(handlers')].tcp = stream'[1].v
          /\ handlers'[Len(handlers')].st = "handshake"
          /\ \A i \in Tasks : handlers'[i].tcp = handlers[i].tcp
    /\ errs' # errs => ~stream'[1].ok /\ handlers' = handlers
    /\ Len(handlers') # Len(handlers) => conns' = conns + 1

\* C19: one task per accepted connection and none per accept error; the tasks
\* are spawned in the order the connections were delivered; the order in which
\* they finish is free (see the witness)
C19_OneTaskPerConnection ==
    /\ [](/\ Len(handlers) = conns
          /\ \A i \in Tasks : handlers[i].tcp = i)
    /\ [][C19_Step]_vars

C19_Witness ==
    /\ conns = 2
    /\ errs = 2
    /\ Len(handlers) = 2
    /\ handlers[1].st = "http"
    /\ handlers[2].st = "done"
    /\ pc = "accepting"


\* a call of configure on a prebuilt ServerConfig or on a custom acceptor
C20_Step ==
    listens' # listens =>
        /\ config.kind = "ServerConfig" =>
              /\ fileOpens' = fileOpens /\ built' = built
              /\ made' = made + 1
              /\ config' = Acceptor(StandardAcceptor(made', config.config))
              /\ acceptor' = Some(config'.acceptor)
              /\ pc' = "connect"
        /\ config.kind = "Acceptor" /\ ~config.acceptor.std =>
              /\ fileOpens' = fileOpens /\ built' = built /\ made' = made
              /\ config' = config
              /\ acceptor' = Some(config.acceptor)
              /\ pc' = "connect"

\* C20: resolving a prebuilt ServerConfig or a custom acceptor opens no file:
\* the ServerConfig is wrapped into a standard acceptor as it is, the custom
\* acceptor is returned itself and the configuration stays the variant it was;
\* a listener finished with either never opens a file
C20_NoFileIO ==
    /\ [](phase = "built" /\ finished[1].v.config.kind # "Paths" => fileOpens = 0)
    /\ [][C20_Step]_vars

C20_Witness ==
    /\ listens = 1
    /\ finished[1].v.config = ServerConfig("prebuilt")
    /\ config = Acceptor(StandardAcceptor(1, "prebuilt"))
    /\ acceptor = Some(StandardAcceptor(1, "prebuilt"))
    /\ fileOpens = 0 /\ built = 0 /\ made = 1
    /\ pc = "accepting"


\* configure called on an Unconfigured configuration
C21_Step ==
    listens' # listens /\ config.kind = "Unconfigured" =>
        /\ config' = Unconfigured
        /\ acceptor' = None
        /\ result' = Some(Err("Other", "could not configure tlslistener"))
        /\ pc' = "returned"

\* C21: finish never returns a listener whose configuration is Unconfigured,
\* and configure on an Unconfigured configuration (whatever the files hold)
\* returns the error of kind Other 'could not configure tlslistener', no
\* acceptor, and leaves the configuration Unconfigured
C21_UnconfiguredIsAnError ==
    /\ [](/\ IsSome(finished) /\ finished[1].ok
             => finished[1].v.config.kind # "Unconfigured"
          /\ \A cf \in CertFiles, kf \in KeyFiles :
                LET r == configure(Unconfigured, cf, kf, made)
                IN  r.res = Err("Other", "could not configure tlslistener")
                    /\ r.config = Unconfigured)
    /\ [][C21_Step]_vars

C21_Witness ==
    /\ listens = 2
    /\ finished[1].v.config.kind = "Paths"
    /\ config = Unconfigured
    /\ fileOpens = 2
    /\ acceptor = None
    /\ result = Some(Err("Other", "could not configure tlslistener"))
    /\ pc = "returned"

\* the tasks whose acceptor is the standard one and whose handshake has ended
StandardDone == {i \in Tasks : handlers[i].acceptor.std /\ IsSome(handlers[i].tls)}

\* C22: a standard acceptor never returns 'no stream': a successful handshake
\* gives a stream, which the task wraps and serves; a failed one is an error
\* the task logs before it ends without serving
C22_StandardAlwaysStreams ==
    \A i \in StandardDone :
        LET h == handlers[i]
            r == h.tls[1]
        IN  /\ r.ok =>
                /\ IsSome(r.v)
                /\ h.wrapper = Some(r.v)
                /\ h.st \in {"http", "done"}
                /\ h.st = "done" => IsSome(h.h1)
            /\ ~r.ok =>
                /\ h.st = "done"
                /\ h.log = Some("tls error")
                /\ h.wrapper = None
                /\ h.h1 = None

C22_Witness ==
    /\ Len(handlers) = 2
    /\ handlers[1].acceptor = StandardAcceptor(1, "from paths")
    /\ handlers[1].tls = Some(Ok(Some("tls stream")))
    /\ handlers[1].st = "http"
    /\ handlers[2].tls = Some(Err("InvalidData", "handshake failed"))
    /\ handlers[2].st = "done"


\* a call of configure on paths that fails, and one after such a failure
C23_Step ==
    listens' # listens =>
        /\ config.kind = "Paths" /\ IsNone(acceptor') =>
              /\ config' = Unconfigured
              /\ ~result'[1].ok
              /\ result'[1].kind \in {"NotFound", "InvalidInput"}
        /\ config.kind = "Unconfigured" =>
              /\ config' = Unconfigured
              /\ fileOpens' = fileOpens /\ built' = built /\ made' = made
              /\ result' = Some(Err("Other", "could not configure tlslistener"))
              /\ pc' = "returned"

\* C23: a configure that fails on paths leaves the configuration Unconfigured;
\* from then on every listen fails with 'could not configure tlslistener' and
\* opens no file, whatever the files hold by then
C23_FailedPathsAreLost ==
    /\ [](config.kind = "Unconfigured" =>
            /\ finished[1].v.config.kind = "Paths"
            /\ \A cf \in CertFiles, kf \in KeyFiles :
                  LET r == configure(config, cf, kf, made)
                  IN  /\ r.opens = 0
                      /\ r.config = Unconfigured
                      /\ ~r.res.ok)
    /\ [][C23_Step]_vars

C23_Witness ==
    /\ listens = 2
    /\ finished[1].v.config.kind = "Paths"
    /\ config = Unconfigured
    /\ fileOpens = 1
    /\ built = 0
    /\ result = Some(Err("Other", "could not configure tlslistener"))
    /\ pc = "returned"

\* listen up to its first two awaits
C24_Step ==
    /\ listens' # listens =>
          /\ binds' = binds
          /\ connection' = connection
          /\ IsNone(acceptor') =>
                /\ pc' = "returned"
                /\ ~result'[1].ok
    /\ binds' # binds =>
          /\ pc = "connect"
          /\ IsSome(acceptor)
          /\ acceptor' = acceptor

\* C24: listen resolves the acceptor first: a bind is only made with the
\* acceptor in hand, and when configure fails listen returns its error, no bind
\* is made and the connection is what it was
C24_AcceptorBeforeSocket ==
    /\ [](pc = "connect" => IsSome(acceptor) /\ config = Acceptor(acceptor[1]))
    /\ [][C24_Step]_vars

C24_Witness ==
    /\ listens = 1
    /\ pc = "returned"
    /\ result = Some(Err("InvalidInput", "invalid key"))
    /\ acceptor = None
    /\ binds = 0
    /\ connection = Addrs(<<"b1", "b2">>)
    /\ connection = finished[1].v.connection

\* connect, and the listen that follows a failed one
C25_Step ==
    /\ binds' # binds /\ pc' = "returned" =>
          /\ connection.kind = "Addrs"
          /\ connection' = connection
          /\ config' = config
          /\ config = Acceptor(acceptor[1])
          /\ ~result'[1].ok
    /\ listens' # listens /\ config.kind = "Acceptor" =>
          /\ fileOpens' = fileOpens
          /\ acceptor' = Some(config.acceptor)
          /\ pc' = "connect"

\* C25: a bind that fails leaves the connection Addrs with the same addresses
\* and the configuration the resolved acceptor; the next listen gets that
\* acceptor without opening a file and binds again
C25_BindIsRetried ==
    /\ [](connection.kind = "Addrs" /\ phase = "built"
            => connection = finished[1].v.connection)
    /\ [][C25_Step]_vars

C25_Witness ==
    /\ listens = 2
    /\ binds = 2
    /\ fileOpens = 2
    /\ made = 1
    /\ finished[1].v.connection = Addrs(<<"b1", "b2">>)
    /\ connection = Connected([id |-> 2, local |-> "b2"])
    /\ pc = "accepting"


\* the addrs calls that resolved, and what the last of them resolved to
ResolvedCalls ==
    {i \in 1..Len(trace) : trace[i].op = "addrs" /\ to_socket_addrs(trace[i].arg).ok}
LastResolved ==
    IF ResolvedCalls = {} THEN None
    ELSE LET last == CHOOSE i \in ResolvedCalls : \A j \in ResolvedCalls : j <= i
         IN  Some(to_socket_addrs(trace[last].arg).v)

\* an addrs call touches no field but addrs, and not even that when the
\* resolution fails
C26_Step ==
    Len(trace') = Len(trace) + 1 /\ trace'[Len(trace')].op = "addrs" =>
        /\ builder'.key = builder.key /\ builder'.cert = builder.cert
        /\ builder'.config = builder.config
        /\ builder'.tls_acceptor = builder.tls_acceptor
        /\ builder'.tcp = builder.tcp
        /\ ~to_socket_addrs(trace'[Len(trace')].arg).ok => builder' = builder

\* C26: the builder holds the addresses of the last addrs call that resolved,
\* whatever failed calls came after it and whatever resolved before it, and
\* those are the addresses of the listener finish returns; an addrs call
\* changes no other field
C26_LastResolvedAddrsWin ==
    /\ [](/\ builder.addrs = LastResolved
          /\ phase = "built" /\ connection.kind = "Addrs"
             => Some(connection.addrs) = LastResolved)
    /\ [][C26_Step]_vars

C26_Witness ==
    /\ Len(trace) = 3
    /\ trace[1] = called("config", "prebuilt")
    /\ trace[2] = called("addrs", "hostB")
    /\ trace[3] = called("addrs", "unresolvable")
    /\ builder.addrs = Some(<<"b1", "b2">>)
    /\ phase = "built"
    /\ connection = Addrs(<<"b1", "b2">>)


\* a poller inside a poll function is a running thread: the code between
\* lock() and the return has no await, and the inner poll does not block; the
\* mutex hands the lock to a waiting thread if it is released again and again
WrapperFairness ==
    \A p \in Pollers :
        /\ SF_vars(PollLock(p))
        /\ WF_vars(PollInner(p) \/ PollReturn(p) \/ PollPanic(p))

\* the calls looked at under fairness
MaxFairCalls == 2

FairPollCall(p) ==
    /\ ncalls < MaxFairCalls
    /\ PollCall(p)

WrapperFairNext ==
    \/ \E p \in Pollers : WrapperNew(p)
    \/ \E p, q \in Pollers : WrapperClone(p, q)
    \/ \E p \in Pollers : FairPollCall(p)
    \/ \E p \in Pollers : PollLock(p)
    \/ \E p \in Pollers : PollInner(p)
    \/ \E p \in Pollers : PollReturn(p)
    \/ \E p \in Pollers : PollPanic(p)

WrapperFairSpec == Init /\ [][WrapperFairNext]_vars /\ WrapperFairness

====
